---- MODULE Spec2Model ----
(***************************************************************************)
(* A model of the compiled-graph cache of                                  *)
(* OneFlowStableDiffusionImg2ImgPipeline                                   *)
(* (pipeline_stable_diffusion_img2img_oneflow.py) and of the module shim   *)
(* built by oneflow_compile (with_oneflow_compile.py).                     *)
(*                                                                         *)
(* Pipeline part.  __call__ reads the names height, width, timer and start *)
(* without binding them in its body; the model takes them as bound in the  *)
(* enclosing scope and treats (height, width) as the shape key of the      *)
(* call, an input.  A dict is a sequence of entries in insertion order, as *)
(* Python iterates it, so that min() over the keys picks the first minimal *)
(* one exactly as the interpreter does.                                    *)
(***************************************************************************)
EXTENDS Integers, Sequences, FiniteSets, TLC

\* ------------------------------------------------------------------ bounds
NumShapes == 4            \* distinct (height, width) shape keys
MaxCacheSize == 2         \* largest value passed to set_unet_graphs_cache_size
MaxClock == 5             \* pipeline calls that reach the cache
MaxArgs == 1              \* leaves of the argument tree of one shim invocation
NumPaths == 1             \* files a runtime state is saved to and loaded from
MaxWidth == 2             \* children of one sequence of a nested argument structure

Shapes == 1..NumShapes
\* 0 stands for every invalid capacity n < 1
CacheSizes == 0..MaxCacheSize
PromptTypes == {"str", "list", "other"}
\* strength below 0, at both ends of [0, 1], and above 1
Strengths == {-1, 0, 1, 2}

VARIABLES
    unet_graphs,                 \* dict: <<[shape, time, graph], ...>> in insertion order
    unet_graphs_cache_size,
    unet_graphs_lru_cache_time,
    graphs_built,                \* UNetGraph objects constructed so far; the n-th has identity n
    scenario,                    \* calls of LRUAccesses made so far, -1 once a call departs from it
    discarded_graphs,            \* identities of the graphs the cache holds no more: deleted
                                 \* by the eviction loop, or dropped when _compile raised
    workload,                    \* shape key of the previous call that reached the cache, 0 before
                                 \* the first; -1 once the capacity was set away from its default
                                 \* or a call raised
    last                         \* what the last operation did

pvars == <<unet_graphs, unet_graphs_cache_size, unet_graphs_lru_cache_time,
           graphs_built, scenario, discarded_graphs, workload, last>>

\* the module returned by oneflow_compile
VARIABLES
    use_graph,                   \* the keyword argument, closed over by the methods
    built_with_graph,            \* use_graph as passed to oneflow_compile
    has_apply_model,             \* whether the wrapped class defines apply_model
    dpl_graph,                   \* of_md._dpl_graph: a graph identity, 0 when the attribute is absent
    graph_state,                 \* "uncompiled", "compiled" or "loaded"; "none" without a graph
    runtime_state,               \* the graph's runtime state dict
    files,                       \* path -> saved state dict, NoFile when absent
    shim_last                    \* what the last shim operation did

svars == <<use_graph, built_with_graph, has_apply_model, dpl_graph, graph_state,
           runtime_state, files, shim_last>>

\* one structure taken through the Tensor Bridge and back
VARIABLES
    bridge_pc,                   \* "idle", "dynamic", "compiled" or "returned"
    bridge_in,                   \* the structure the caller holds
    bridge_val                   \* the structure as it travels

bvars == <<bridge_pc, bridge_in, bridge_val>>

vars == <<pvars, svars, bvars>>

\* ------------------------------------------------------------ dict helpers
Keys(d) == {d[i].shape : i \in 1..Len(d)}

IndexOf(d, shape) == CHOOSE i \in 1..Len(d) : d[i].shape = shape

Entry(d, shape) == d[IndexOf(d, shape)]

\* del d[shape]
Del(d, shape) == SelectSeq(d, LAMBDA e : e.shape # shape)

\* d[shape] = (time, graph): an existing key keeps its position, a new one goes last
Put(d, shape, time, graph) ==
    LET e == [shape |-> shape, time |-> time, graph |-> graph]
    IN  IF shape \in Keys(d)
        THEN [d EXCEPT ![IndexOf(d, shape)] = e]
        ELSE Append(d, e)

\* the first key inserted, whatever its time
ShapeToDelFIFO(d) == d[1].shape

\* the most recently used key instead of the least recently used one
ShapeToDelMRU(d) ==
    LET i == CHOOSE i \in 1..Len(d) :
                 /\ \A j \in 1..Len(d) : d[j].time <= d[i].time
                 /\ \A j \in 1..(i - 1) : d[j].time < d[i].time
    IN  d[i].shape

\* min(self.unet_graphs.keys(), key=lambda shape: self.unet_graphs[shape][0]):
\* the first key, in iteration order, whose time is minimal
ShapeToDel(d) ==
    LET i == CHOOSE i \in 1..Len(d) :
                 /\ \A j \in 1..Len(d) : d[j].time >= d[i].time
                 /\ \A j \in 1..(i - 1) : d[j].time > d[i].time
    IN  d[i].shape

\* > for >=
LoopCondOffByOne(d, cache_size) == Len(d) > cache_size

\* len(self.unet_graphs) >= self.unet_graphs_cache_size
LoopCond(d, cache_size) == Len(d) >= cache_size

\* the loop stops at an empty dict
RECURSIVE EvictLoopGuarded(_, _, _)
EvictLoopGuarded(d, cache_size, evicted) ==
    IF LoopCond(d, cache_size) /\ Len(d) > 0
    THEN LET shape_to_del == ShapeToDel(d)
         IN  EvictLoopGuarded(Del(d, shape_to_del), cache_size,
                              Append(evicted, shape_to_del))
    ELSE [graphs |-> d, evicted |-> evicted, raised |-> FALSE]

\* while len(self.unet_graphs) >= self.unet_graphs_cache_size: ... del ...
\* min() of an empty sequence raises ValueError
RECURSIVE EvictLoop(_, _, _)
EvictLoop(d, cache_size, evicted) ==
    IF LoopCond(d, cache_size)
    THEN IF Len(d) = 0
         THEN [graphs |-> d, evicted |-> evicted, raised |-> TRUE]
         ELSE LET shape_to_del == ShapeToDel(d)
              IN  EvictLoop(Del(d, shape_to_del), cache_size,
                            Append(evicted, shape_to_del))
    ELSE [graphs |-> d, evicted |-> evicted, raised |-> FALSE]

\* the entry is left as it was
TouchStale(d, shape, now) == d

\* the entry takes the clock value from before the increment
TouchBeforeTick(d, shape, now) == Put(d, shape, now - 1, Entry(d, shape).graph)

\* the hit branch: the entry keeps its graph and takes the current clock value
Touch(d, shape, now) == Put(d, shape, now, Entry(d, shape).graph)

\* advances the clock by two
TickByTwo(time) == time + 2

\* self.unet_graphs_lru_cache_time += 1
Tick(time) == time + 1

\* the graph of whichever key comes first in the dict
HitGraphFirst(d, shape) == d[1].graph

\* unet_graph = self.unet_graphs[height, width][1]
HitGraph(d, shape) == Entry(d, shape).graph

\* the graphs stored under the keys the eviction loop deleted
GraphsOf(d, evicted) == {Entry(d, evicted[i]).graph : i \in 1..Len(evicted)}

\* the entry is stored before the graph is compiled
FailedMissGraphsInserted(d, shape, now, unet_graph) == Put(d, shape, now, unet_graph)

\* the dict after _compile raised: as the eviction loop left it, the
\* assignment self.unet_graphs[height, width] = ... not reached
FailedMissGraphs(d, shape, now, unet_graph) == d

\* the access sequence A, B, C, A, D of the eviction-order test (observer of
\* claim C1): scenario counts how many of its calls have been made, each under
\* capacity 2 and starting from the cache as constructed
LRUAccesses == <<1, 2, 3, 1, 4>>
A == LRUAccesses[1]
B == LRUAccesses[2]
C == LRUAccesses[3]
D == LRUAccesses[5]

Follows(step, now, shape, cache_size, compiled) ==
    IF /\ step = now - 1
       /\ now <= Len(LRUAccesses)
       /\ cache_size = 2
       /\ compiled
       /\ shape = LRUAccesses[now]
    THEN now
    ELSE -1

\* observer of claim C16: the previous call's key while the capacity is the
\* default and every call has returned
Continues(previous, shape, returned) ==
    IF previous # -1 /\ returned THEN shape ELSE -1

\* ----------------------------------------------------------------- state
NoOp ==
    [op |-> "init", shape |-> 0, n |-> 0, raised |-> "none", evicted |-> <<>>,
     unet_graph |-> 0, built |-> 0, compile_calls |-> 0, compiled |-> "none",
     loop_graph |-> 0, loop_unet |-> FALSE]

\* the denoising loop runs self.unet after the failure
CompileFailedFallsBack(base, unet_graph) ==
    [base EXCEPT !.unet_graph = unet_graph, !.built = 1, !.compile_calls = 1,
                 !.compiled = "failed", !.loop_unet = TRUE]

\* unet_graph._compile raises inside __call__, which has no try around it: the
\* exception leaves __call__ before the denoising loop
CompileFailed(base, unet_graph) ==
    [base EXCEPT !.raised = "CompileError", !.unet_graph = unet_graph, !.built = 1,
                 !.compile_calls = 1, !.compiled = "failed"]

PInit ==
    /\ unet_graphs = <<>>
    /\ unet_graphs_cache_size = 1
    /\ unet_graphs_lru_cache_time = 0
    /\ graphs_built = 0
    /\ scenario = 0
    /\ discarded_graphs = {}
    /\ workload = 0
    /\ last = NoOp

\* ------------------------------------------------------------- operations
\* evicts down to the new capacity at once
set_unet_graphs_cache_size_eager(cache_size) ==
    /\ unet_graphs_cache_size' = cache_size
    /\ unet_graphs' = EvictLoop(unet_graphs, cache_size + 1, <<>>).graphs
    /\ discarded_graphs' = discarded_graphs \cup
           GraphsOf(unet_graphs, EvictLoop(unet_graphs, cache_size + 1, <<>>).evicted)
    /\ workload' = IF cache_size = 1 THEN workload ELSE -1
    /\ last' = [NoOp EXCEPT !.op = "set_size", !.n = cache_size]
    /\ UNCHANGED <<unet_graphs_lru_cache_time, graphs_built, scenario>>

set_unet_graphs_cache_size(cache_size) ==
    /\ unet_graphs_cache_size' = cache_size
    /\ workload' = IF cache_size = 1 THEN workload ELSE -1
    /\ last' = [NoOp EXCEPT !.op = "set_size", !.n = cache_size]
    /\ UNCHANGED <<unet_graphs, unet_graphs_lru_cache_time, graphs_built,
                   scenario, discarded_graphs>>

\* the two checks at the head of __call__
Rejected(prompt, strength) ==
    \/ prompt \notin {"str", "list"}
    \/ strength < 0
    \/ strength > 1

Accepted == \E p \in PromptTypes, s \in Strengths : ~Rejected(p, s)

\* the arguments are checked after the clock is advanced
CallRejectedAfterTick(prompt, strength) ==
    /\ Rejected(prompt, strength)
    /\ unet_graphs_lru_cache_time < MaxClock
    /\ unet_graphs_lru_cache_time' = Tick(unet_graphs_lru_cache_time)
    /\ last' = [NoOp EXCEPT !.op = "rejected", !.raised = "ValueError"]
    /\ UNCHANGED <<unet_graphs, unet_graphs_cache_size, graphs_built, scenario,
                   discarded_graphs, workload>>

\* __call__ raising ValueError on its arguments
CallRejected(prompt, strength) ==
    /\ Rejected(prompt, strength)
    /\ last' = [NoOp EXCEPT !.op = "rejected", !.raised = "ValueError"]
    /\ UNCHANGED <<unet_graphs, unet_graphs_cache_size, unet_graphs_lru_cache_time,
                   graphs_built, scenario, discarded_graphs, workload>>

\* the clock is advanced whatever compile_unet is
CallUncompiledTicks ==
    /\ Accepted
    /\ unet_graphs_lru_cache_time < MaxClock
    /\ unet_graphs_lru_cache_time' = Tick(unet_graphs_lru_cache_time)
    /\ last' = [NoOp EXCEPT !.op = "uncompiled", !.loop_unet = TRUE]
    /\ UNCHANGED <<unet_graphs, unet_graphs_cache_size, graphs_built, scenario,
                   discarded_graphs, workload>>

\* __call__ with compile_unet=False: the loop runs self.unet
CallUncompiled ==
    /\ Accepted
    /\ last' = [NoOp EXCEPT !.op = "uncompiled", !.loop_unet = TRUE]
    /\ UNCHANGED <<unet_graphs, unet_graphs_cache_size, unet_graphs_lru_cache_time,
                   graphs_built, scenario, discarded_graphs, workload>>

\* __call__ with compile_unet=True and (height, width) in self.unet_graphs
CallHit(shape) ==
    /\ Accepted
    /\ unet_graphs_lru_cache_time < MaxClock
    /\ shape \in Keys(unet_graphs)
    /\ LET now == Tick(unet_graphs_lru_cache_time)
           unet_graph == HitGraph(unet_graphs, shape)
       IN  /\ unet_graphs_lru_cache_time' = now
           /\ unet_graphs' = Touch(unet_graphs, shape, now)
           /\ scenario' = Follows(scenario, now, shape, unet_graphs_cache_size, TRUE)
           /\ workload' = Continues(workload, shape, TRUE)
           /\ last' = [NoOp EXCEPT !.op = "hit", !.shape = shape,
                                   !.unet_graph = unet_graph,
                                   !.loop_graph = unet_graph]
    /\ UNCHANGED <<unet_graphs_cache_size, graphs_built, discarded_graphs>>

\* __call__ with compile_unet=True and (height, width) not in self.unet_graphs;
\* compiles: whether unet_graph._compile and the warmup run return
CallMiss(shape, compiles) ==
    /\ Accepted
    /\ unet_graphs_lru_cache_time < MaxClock
    /\ shape \notin Keys(unet_graphs)
    /\ LET now == Tick(unet_graphs_lru_cache_time)
           loop == EvictLoop(unet_graphs, unet_graphs_cache_size, <<>>)
           unet_graph == graphs_built + 1
           base == [NoOp EXCEPT !.op = "miss", !.shape = shape,
                                !.evicted = loop.evicted]
       IN  /\ unet_graphs_lru_cache_time' = now
           /\ discarded_graphs' =
                  discarded_graphs \cup GraphsOf(unet_graphs, loop.evicted) \cup
                  (IF ~loop.raised /\ ~compiles THEN {unet_graph} ELSE {})
           /\ IF loop.raised
              THEN \* min() of the empty key view
                   /\ unet_graphs' = loop.graphs
                   /\ graphs_built' = graphs_built
                   /\ scenario' = -1
                   /\ workload' = -1
                   /\ last' = [base EXCEPT !.raised = "ValueError"]
              ELSE IF ~compiles
              THEN \* UNetGraph(self.unet) is built, _compile raises
                   /\ unet_graphs' = FailedMissGraphs(loop.graphs, shape, now, unet_graph)
                   /\ graphs_built' = graphs_built + 1
                   /\ scenario' = -1
                   /\ workload' = -1
                   /\ last' = CompileFailed(base, unet_graph)
              ELSE /\ unet_graphs' = Put(loop.graphs, shape, now, unet_graph)
                   /\ graphs_built' = graphs_built + 1
                   /\ scenario' = Follows(scenario, now, shape, unet_graphs_cache_size, TRUE)
                   /\ workload' = Continues(workload, shape, TRUE)
                   /\ last' = [base EXCEPT !.unet_graph = unet_graph,
                                           !.built = 1,
                                           !.compile_calls = 1,
                                           !.compiled = "ok",
                                           !.loop_graph = unet_graph]
    /\ UNCHANGED <<unet_graphs_cache_size>>

\* ===================================================== with_oneflow_compile.py
Frameworks == {"torch", "flow", "other"}
\* v: the memory a tensor lives in, which conversion shares and never copies
TensorData == {"x"}
Leaves == [fw : Frameworks, v : TensorData]
ArgTuples == UNION {[1..n -> Leaves] : n \in 0..MaxArgs}
Paths == 1..NumPaths
Devices == {"None", "cuda", "cpu"}
NoFile == [data |-> "absent", device |-> "None"]
NoState == [data |-> "none", device |-> "None"]
\* what runtime_state_dict() yields when the library accepts a graph never run
EmptyState == [data |-> "empty", device |-> "None"]
\* the state a graph gets by compiling on live input
BuiltState == [data |-> "built", device |-> "cuda"]
\* the graph object built by get_unet_graph(size)(of_md)
ConstructedGraph == 1

\* returns every leaf as it is
input_fn_identity(value) == value

\* input_fn: a torch tensor becomes the oneflow tensor on the same memory
input_fn(value) ==
    IF value.fw = "torch" THEN [value EXCEPT !.fw = "flow"] ELSE value

\* leaves the oneflow tensor as it is
output_fn_identity(value) == value

\* output_fn: a oneflow tensor becomes the torch tensor on the same memory
output_fn(value) ==
    IF value.fw = "flow" THEN [value EXCEPT !.fw = "torch"] ELSE value

\* A nested structure is a leaf, a sequence [kind |-> "seq", items |-> <<...>>]
\* or a mapping [kind |-> "map", items |-> <<[key, val], ...>>] in key order.
IsLeaf(value) == "fw" \in DOMAIN value

\* ArgsTree.map_leaf(input_fn): a new container of the same class for every
\* container, the mapped leaf for every leaf
RECURSIVE map_leaf_input(_)
map_leaf_input(value) ==
    IF IsLeaf(value)
    THEN input_fn(value)
    ELSE IF value.kind = "seq"
    THEN [kind |-> "seq",
          items |-> [i \in 1..Len(value.items) |-> map_leaf_input(value.items[i])]]
    ELSE [kind |-> "map",
          items |-> [i \in 1..Len(value.items) |->
                        [key |-> value.items[i].key,
                         val |-> map_leaf_input(value.items[i].val)]]]

\* ArgsTree.map_leaf(output_fn)
RECURSIVE map_leaf_output(_)
map_leaf_output(value) ==
    IF IsLeaf(value)
    THEN output_fn(value)
    ELSE IF value.kind = "seq"
    THEN [kind |-> "seq",
          items |-> [i \in 1..Len(value.items) |-> map_leaf_output(value.items[i])]]
    ELSE [kind |-> "map",
          items |-> [i \in 1..Len(value.items) |->
                        [key |-> value.items[i].key,
                         val |-> map_leaf_output(value.items[i].val)]]]

\* ArgsTree((args, kwargs), ...).map_leaf(input_fn): every argument, in order
process_input(args) == [i \in 1..Len(args) |-> map_leaf_input(args[i])]

\* ArgsTree((output, None), False).map_leaf(output_fn)
process_output(output) == map_leaf_output(output)

\* the structures of nesting depth at most two: a sequence has up to MaxWidth
\* children at the top and one fewer inside another structure
MapKeys == {"a", "b"}
KeySeqs ==
    {ks \in UNION {[1..n -> MapKeys] : n \in 0..Cardinality(MapKeys)} :
        \A i \in 1..Len(ks), j \in 1..Len(ks) : ks[i] = ks[j] => i = j}
SeqNodes(S, width) ==
    {[kind |-> "seq", items |-> q] : q \in UNION {[1..n -> S] : n \in 0..width}}
MapNodes(S) ==
    UNION {{[kind |-> "map",
             items |-> [i \in 1..Len(ks) |-> [key |-> ks[i], val |-> vs[i]]]] :
               vs \in [1..Len(ks) -> S]} : ks \in KeySeqs}
Trees1 == Leaves \cup SeqNodes(Leaves, MaxWidth - 1) \cup MapNodes(Leaves)
Structures == Leaves \cup SeqNodes(Trees1, MaxWidth) \cup MapNodes(Trees1)

BIdle ==
    /\ bridge_pc = "idle"
    /\ bridge_in = <<>>
    /\ bridge_val = <<>>

\* the caller holds a structure S
BInit ==
    /\ bridge_pc = "dynamic"
    /\ bridge_in \in Structures
    /\ bridge_val = bridge_in

\* the input conversion of S
ToCompiled ==
    /\ bridge_pc = "dynamic"
    /\ bridge_val' = map_leaf_input(bridge_val)
    /\ bridge_pc' = "compiled"
    /\ UNCHANGED bridge_in

\* the output conversion of what the input conversion gave
ToDynamic ==
    /\ bridge_pc = "compiled"
    /\ bridge_val' = map_leaf_output(bridge_val)
    /\ bridge_pc' = "returned"
    /\ UNCHANGED bridge_in

\* flow.nn.Graph.runtime_state_dict_to(state_dict, device)
RuntimeStateDictTo(state_dict, device) == [state_dict EXCEPT !.device = device]

\* installs the state dict as loaded and retargets it afterwards
WarmupWithLoadInstallsFirst(fs, file_path, device) ==
    IF fs[file_path] = NoFile
    THEN [raised |-> "LoadError", state |-> NoState, steps |-> <<"load">>]
    ELSE [raised |-> "none",
          state |-> fs[file_path],
          steps |-> IF device # "None"
                    THEN <<"load", "load_runtime_state_dict", "runtime_state_dict_to">>
                    ELSE <<"load", "load_runtime_state_dict">>]

\* UNetGraph.warmup_with_load: the state dict it installs and the steps it takes;
\* flow.load raises when there is no file at file_path
WarmupWithLoad(fs, file_path, device) ==
    IF fs[file_path] = NoFile
    THEN [raised |-> "LoadError", state |-> NoState, steps |-> <<"load">>]
    ELSE LET state_dict == fs[file_path]
         IN  IF device # "None"
             THEN [raised |-> "none",
                   state |-> RuntimeStateDictTo(state_dict, device),
                   steps |-> <<"load", "runtime_state_dict_to", "load_runtime_state_dict">>]
             ELSE [raised |-> "none",
                   state |-> state_dict,
                   steps |-> <<"load", "load_runtime_state_dict">>]

SNoOp ==
    [op |-> "init", raised |-> "none", route |-> "none", graph |-> 0,
     args |-> <<>>, module_args |-> <<>>, output |-> NoState, result |-> NoState,
     state_before |-> "none", steps |-> <<>>,
     file_path |-> 0, device |-> "None", warnings |-> <<>>]

\* the state oneflow_compile returns the module in
SInitWith(g, a) ==
    /\ use_graph = g
    /\ built_with_graph = g
    /\ has_apply_model = a
    /\ dpl_graph = IF g THEN ConstructedGraph ELSE 0
    /\ graph_state = IF g THEN "uncompiled" ELSE "none"
    /\ runtime_state = NoState
    /\ files = [p \in Paths |-> NoFile]
    /\ shim_last = SNoOp

\* the body shared by __call__ and apply_model: process_input, then the graph
\* or the wrapped module's own method, then process_output.  output is what
\* the module computes; the first run of a graph compiles it.
Invoke(op, args, output) ==
    LET mapped_args == process_input(args)
    IN  /\ IF use_graph
           THEN /\ graph_state' = IF graph_state = "uncompiled" THEN "compiled" ELSE graph_state
                /\ runtime_state' = IF graph_state = "uncompiled" THEN BuiltState ELSE runtime_state
           ELSE UNCHANGED <<graph_state, runtime_state>>
        /\ shim_last' = [SNoOp EXCEPT !.op = op,
                                      !.route = IF use_graph THEN "graph" ELSE "eager",
                                      !.graph = IF use_graph THEN dpl_graph ELSE 0,
                                      !.args = args,
                                      !.module_args = mapped_args,
                                      !.output = output,
                                      !.result = process_output(output),
                                      !.state_before = graph_state]
        /\ UNCHANGED <<use_graph, built_with_graph, has_apply_model, dpl_graph, files>>

\* DeplayableModule.__call__
ShimCall(args, output) == Invoke("call", args, output)

\* DeplayableModule.apply_model: returns None when the wrapped class has no apply_model
ShimApplyModel(args, output) ==
    IF has_apply_model
    THEN Invoke("apply_model", args, output)
    ELSE /\ shim_last' = [SNoOp EXCEPT !.op = "apply_model", !.args = args,
                                       !.state_before = graph_state]
         /\ UNCHANGED <<use_graph, built_with_graph, has_apply_model, dpl_graph,
                        graph_state, runtime_state, files>>

\* self._dpl_graph.warmup_with_load(file_path, device), the body of load_graph
\* and of warmup_with_load.  Neither method nor UNetGraph.warmup_with_load
\* tests the state of the graph or writes to a log: warnings stays empty.
Load(op, file_path, device) ==
    IF dpl_graph = 0
    THEN /\ shim_last' = [SNoOp EXCEPT !.op = op, !.raised = "AttributeError",
                                       !.state_before = graph_state,
                                       !.file_path = file_path,
                                       !.device = device]
         /\ UNCHANGED <<use_graph, built_with_graph, has_apply_model, dpl_graph,
                        graph_state, runtime_state, files>>
    ELSE LET w == WarmupWithLoad(files, file_path, device)
         IN  /\ graph_state' = IF w.raised = "none" THEN "loaded" ELSE graph_state
             /\ runtime_state' = IF w.raised = "none" THEN w.state ELSE runtime_state
             /\ shim_last' = [SNoOp EXCEPT !.op = op, !.raised = w.raised,
                                           !.graph = dpl_graph,
                                           !.state_before = graph_state,
                                           !.steps = w.steps,
                                           !.file_path = file_path,
                                           !.device = device]
             /\ UNCHANGED <<use_graph, built_with_graph, has_apply_model, dpl_graph, files>>

\* builds a fresh graph for the loaded state and rebinds _dpl_graph to it
ShimLoadGraphRebinds(file_path, device) ==
    /\ dpl_graph' = dpl_graph + 1
    /\ use_graph' = TRUE
    /\ graph_state' = "loaded"
    /\ runtime_state' = WarmupWithLoad(files, file_path, device).state
    /\ shim_last' = [SNoOp EXCEPT !.op = "load_graph", !.graph = dpl_graph + 1,
                                  !.state_before = graph_state]
    /\ UNCHANGED <<built_with_graph, has_apply_model, files>>

\* DeplayableModule.load_graph
ShimLoadGraph(file_path, device) == Load("load_graph", file_path, device)

\* DeplayableModule.warmup_with_load
ShimWarmupWithLoad(file_path, device) == Load("warmup_with_load", file_path, device)

\* DeplayableModule.save_graph -> UNetGraph.save_graph.  The code tests nothing
\* before self.runtime_state_dict(); on a graph never run the library either
\* raises or hands back an empty state dict (accepts), and flow.save then
\* writes it.
ShimSaveGraph(file_path, accepts) ==
    IF dpl_graph = 0
    THEN /\ shim_last' = [SNoOp EXCEPT !.op = "save_graph", !.raised = "AttributeError",
                                       !.state_before = graph_state]
         /\ UNCHANGED <<use_graph, built_with_graph, has_apply_model, dpl_graph,
                        graph_state, runtime_state, files>>
    ELSE IF graph_state = "uncompiled" /\ ~accepts
    THEN /\ shim_last' = [SNoOp EXCEPT !.op = "save_graph", !.raised = "LibraryError",
                                       !.graph = dpl_graph,
                                       !.state_before = graph_state]
         /\ UNCHANGED <<use_graph, built_with_graph, has_apply_model, dpl_graph,
                        graph_state, runtime_state, files>>
    ELSE LET state_dict == IF graph_state = "uncompiled" THEN EmptyState ELSE runtime_state
         IN  /\ files' = [files EXCEPT ![file_path] = state_dict]
             /\ shim_last' = [SNoOp EXCEPT !.op = "save_graph", !.graph = dpl_graph,
                                           !.state_before = graph_state]
             /\ UNCHANGED <<use_graph, built_with_graph, has_apply_model, dpl_graph,
                            graph_state, runtime_state>>

\* ============================================================ specifications
\* the pipeline alone: no module has been through oneflow_compile
Init == PInit /\ SInitWith(FALSE, FALSE) /\ BIdle

Next ==
    \/ \E n \in CacheSizes : set_unet_graphs_cache_size(n) /\ UNCHANGED <<svars, bvars>>
    \/ \E p \in PromptTypes, s \in Strengths : CallRejected(p, s) /\ UNCHANGED <<svars, bvars>>
    \/ CallUncompiled /\ UNCHANGED <<svars, bvars>>
    \/ \E shape \in Shapes : CallHit(shape) /\ UNCHANGED <<svars, bvars>>
    \/ \E shape \in Shapes, compiles \in BOOLEAN :
           CallMiss(shape, compiles) /\ UNCHANGED <<svars, bvars>>

Spec == Init /\ [][Next]_vars

\* the shim alone, built in either mode around either kind of module
InitShim == PInit /\ BIdle /\ \E g \in BOOLEAN, a \in BOOLEAN : SInitWith(g, a)

NextShim ==
    \/ \E args \in ArgTuples, output \in Leaves :
           ShimCall(args, output) /\ UNCHANGED <<pvars, bvars>>
    \/ \E args \in ArgTuples, output \in Leaves :
           ShimApplyModel(args, output) /\ UNCHANGED <<pvars, bvars>>
    \/ \E file_path \in Paths, device \in Devices :
           ShimLoadGraph(file_path, device) /\ UNCHANGED <<pvars, bvars>>
    \/ \E file_path \in Paths, device \in Devices :
           ShimWarmupWithLoad(file_path, device) /\ UNCHANGED <<pvars, bvars>>
    \/ \E file_path \in Paths, accepts \in BOOLEAN :
           ShimSaveGraph(file_path, accepts) /\ UNCHANGED <<pvars, bvars>>

SpecShim == InitShim /\ [][NextShim]_vars

\* the Tensor Bridge alone, on every structure of Structures
InitBridge == PInit /\ SInitWith(FALSE, FALSE) /\ BInit

NextBridge ==
    \/ ToCompiled /\ UNCHANGED <<pvars, svars>>
    \/ ToDynamic /\ UNCHANGED <<pvars, svars>>

SpecBridge == InitBridge /\ [][NextBridge]_vars

\* ------------------------------------------------------------------ claims
Max(a, b) == IF a >= b THEN a ELSE b

TimeOf(d, shape) == Entry(d, shape).time

GraphOf(d, shape) == Entry(d, shape).graph

SeqToSet(q) == {q[i] : i \in 1..Len(q)}

\* C1: with capacity 2 and the cache as constructed, after the calls A, B, C, A, D
\* the cache holds exactly the keys A and D; B is evicted before C: after the
\* fourth call B is gone while C is still resident, and the fifth call removes C.
C1_LRUEvictionOrder ==
    /\ scenario = 4 => B \notin Keys(unet_graphs) /\ C \in Keys(unet_graphs)
    /\ scenario = 5 => Keys(unet_graphs) = {A, D}

C1_Witness == scenario = 5 /\ last.op = "miss" /\ last.evicted = <<C>>

\* shape has the smallest stored time among the entries of d
Oldest(d, shape) ==
    /\ shape \in Keys(d)
    /\ \A k \in Keys(d) : TimeOf(d, k) >= TimeOf(d, shape)

RECURSIVE EvictsOldest(_, _)
EvictsOldest(d, evicted) ==
    \/ evicted = <<>>
    \/ /\ Oldest(d, Head(evicted))
       /\ EvictsOldest(Del(d, Head(evicted)), Tail(evicted))

\* C2: every entry a miss evicts is, at the moment of its removal, the resident
\* entry with the smallest last-access time; no entry is removed while an
\* entry with an older time stays.
C2_EvictsLeastRecent ==
    [][last'.op = "miss" =>
          /\ Keys(unet_graphs) \ Keys(unet_graphs') = SeqToSet(last'.evicted)
          /\ EvictsOldest(unet_graphs, last'.evicted)
          /\ \A r \in Keys(unet_graphs) \ Keys(unet_graphs') :
                 \A k \in Keys(unet_graphs) \cap Keys(unet_graphs') :
                     TimeOf(unet_graphs, r) <= TimeOf(unet_graphs, k)]_vars

C2_Witness ==
    /\ last.op = "miss"
    /\ last.evicted # <<>>
    /\ Len(unet_graphs) >= 2
    /\ unet_graphs[1].shape # last.shape

\* C3 as stated, for the capacities the spec allows (n >= 1): the number of
\* entries never exceeds unet_graphs_cache_size.
C3_SizeNeverExceedsCapacity ==
    unet_graphs_cache_size >= 1 => Len(unet_graphs) <= unet_graphs_cache_size

\* C3 amended: no operation leaves more entries than the larger of the capacity
\* and the number of entries before it, and a call that inserts a graph leaves
\* at most unet_graphs_cache_size entries.
C3_SizeBoundedLazily ==
    [][/\ Len(unet_graphs') <= Max(Len(unet_graphs), unet_graphs_cache_size')
       /\ (last'.op = "miss" /\ last'.raised = "none") =>
              Len(unet_graphs') <= unet_graphs_cache_size']_vars

C3_Witness ==
    /\ last.op = "miss"
    /\ last.raised = "none"
    /\ Len(last.evicted) >= 2
    /\ Len(unet_graphs) = unet_graphs_cache_size

\* C4: a hit constructs no graph and evicts nothing, keeps the graph object
\* cached under its key and runs the call on it; every call constructs exactly
\* as many graphs as it misses, so constructions equal misses.
C4_HitReusesGraph ==
    [][/\ last'.op = "hit" =>
              /\ graphs_built' = graphs_built
              /\ last'.built = 0
              /\ last'.evicted = <<>>
              /\ Keys(unet_graphs') = Keys(unet_graphs)
              /\ \A k \in Keys(unet_graphs) :
                     GraphOf(unet_graphs', k) = GraphOf(unet_graphs, k)
              /\ last'.loop_graph = GraphOf(unet_graphs, last'.shape)
       /\ graphs_built' - graphs_built = IF last'.op = "miss" THEN 1 ELSE 0]_vars

\* the order in which the code would evict the entries of d
EvictionOrder(d) == EvictLoop(d, 0, <<>>).evicted

\* C5: after a hit the hit entry's time is the current clock value and every
\* other resident entry's time is strictly smaller, so the hit entry is the
\* last of the resident entries the eviction loop would remove.
C5_HitIsMostRecent ==
    last.op = "hit" =>
        /\ last.shape \in Keys(unet_graphs)
        /\ TimeOf(unet_graphs, last.shape) = unet_graphs_lru_cache_time
        /\ \A k \in Keys(unet_graphs) \ {last.shape} :
               TimeOf(unet_graphs, k) < unet_graphs_lru_cache_time
        /\ EvictionOrder(unet_graphs)[Len(unet_graphs)] = last.shape

C5_Witness ==
    /\ last.op = "hit"
    /\ Len(unet_graphs) >= 2
    /\ unet_graphs[1].shape = last.shape

\* C6: set_unet_graphs_cache_size leaves unet_graphs and the clock unchanged,
\* also when the new capacity is below the number of cached graphs; an entry
\* leaves the cache only in a pipeline call that misses.
C6_ShrinkIsLazy ==
    [][/\ last'.op = "set_size" =>
              /\ unet_graphs' = unet_graphs
              /\ unet_graphs_lru_cache_time' = unet_graphs_lru_cache_time
       /\ Keys(unet_graphs) \ Keys(unet_graphs') # {} => last'.op = "miss"]_vars

C6_Witness ==
    /\ last.op = "set_size"
    /\ last.n >= 1
    /\ last.n < Len(unet_graphs)

\* C7: set_unet_graphs_cache_size(n) with n < 1 signals a ConfigError and the
\* stored capacity keeps its previous value.
C7_InvalidCapacityRejected ==
    [][(last'.op = "set_size" /\ last'.n < 1) =>
          /\ last'.raised = "ConfigError"
          /\ unet_graphs_cache_size' = unet_graphs_cache_size]_vars

\* C8: save_graph on a graph never executed, compiled or loaded raises
\* InvalidStateError (any error raised is taken for it) and writes no file;
\* save_graph succeeds only on a graph that is compiled or loaded.
C8_SaveNeedsCompiledGraph ==
    [][(shim_last'.op = "save_graph" /\ dpl_graph # 0) =>
          /\ graph_state = "uncompiled" =>
                 /\ shim_last'.raised # "none"
                 /\ files' = files
          /\ shim_last'.raised = "none" =>
                 graph_state \in {"compiled", "loaded"}]_vars

\* C9 as stated: in Eager mode the wrapped module receives the caller's
\* arguments as given and the caller receives the module's output as given.
C9_EagerBypassesBridge ==
    (~built_with_graph /\ shim_last.route = "eager") =>
        /\ shim_last.module_args = shim_last.args
        /\ shim_last.result = shim_last.output

\* a torch tensor seen from oneflow, and back
AsFlow(leaf) == IF leaf.fw = "torch" THEN [fw |-> "flow", v |-> leaf.v] ELSE leaf

AsTorch(leaf) == IF leaf.fw = "flow" THEN [fw |-> "torch", v |-> leaf.v] ELSE leaf

\* C9 amended: in Eager mode every invocation goes to the wrapped module itself,
\* never to a graph, and through the Tensor Bridge as in graph mode: the module
\* receives the caller's arguments with every torch tensor converted to a
\* oneflow tensor and the other leaves unchanged, and the caller receives the
\* module's output with a oneflow tensor converted to a torch tensor.
C9_EagerConvertsThroughBridge ==
    (~built_with_graph /\ shim_last.op \in {"call", "apply_model"}) =>
        /\ shim_last.graph = 0
        /\ shim_last.route = IF shim_last.op = "call" \/ has_apply_model
                             THEN "eager" ELSE "none"
        /\ shim_last.route = "eager" =>
               /\ Len(shim_last.module_args) = Len(shim_last.args)
               /\ \A i \in 1..Len(shim_last.args) :
                      shim_last.module_args[i] = AsFlow(shim_last.args[i])
               /\ shim_last.result = AsTorch(shim_last.output)

C9_Witness ==
    /\ ~built_with_graph
    /\ shim_last.op = "call"
    /\ shim_last.route = "eager"
    /\ \E i \in 1..Len(shim_last.args) :
           /\ shim_last.args[i].fw = "torch"
           /\ shim_last.module_args[i].fw = "flow"
    /\ shim_last.output.fw = "flow"
    /\ shim_last.result.fw = "torch"

\* C10: the mode is the one chosen at construction, whatever operations have
\* run: a shim built with use_graph=True keeps the one graph object it was
\* built with and routes every invocation through it; a shim built with
\* use_graph=False routes every invocation to the module and never has a graph.
C10_ModeFixedAtConstruction ==
    /\ use_graph = built_with_graph
    /\ built_with_graph =>
           /\ dpl_graph = ConstructedGraph
           /\ shim_last.route \in {"graph", "none"}
           /\ shim_last.route = "graph" => shim_last.graph = ConstructedGraph
    /\ ~built_with_graph =>
           /\ dpl_graph = 0
           /\ graph_state = "none"
           /\ shim_last.route \in {"eager", "none"}
           /\ shim_last.graph = 0

C10_Witness ==
    /\ built_with_graph
    /\ graph_state = "loaded"
    /\ shim_last.op \in {"call", "apply_model"}
    /\ shim_last.route = "graph"
    /\ shim_last.graph = ConstructedGraph

\* the leaves of a structure
RECURSIVE LeavesOf(_)
LeavesOf(value) ==
    IF IsLeaf(value)
    THEN {value}
    ELSE IF value.kind = "seq"
    THEN UNION {LeavesOf(value.items[i]) : i \in 1..Len(value.items)}
    ELSE UNION {LeavesOf(value.items[i].val) : i \in 1..Len(value.items)}

Depth2(value) ==
    /\ ~IsLeaf(value)
    /\ \E i \in 1..Len(value.items) :
           LET child == IF value.kind = "seq" THEN value.items[i] ELSE value.items[i].val
           IN  ~IsLeaf(child) /\ LeavesOf(child) # {}

\* C11: for every structure S whose leaves are torch tensors or scalars, the
\* input conversion followed by the output conversion returns a structure equal
\* to S (same nesting, same keys in the same order, equal leaves), and the
\* structure the caller holds is the one it passed.
C11_BridgeRoundTrip ==
    /\ bridge_pc # "idle" => bridge_in \in Structures
    /\ (bridge_pc = "returned" /\ \A l \in LeavesOf(bridge_in) : l.fw # "flow") =>
           bridge_val = bridge_in
    /\ (bridge_pc = "compiled" /\ \A l \in LeavesOf(bridge_in) : l.fw # "flow") =>
           \A l \in LeavesOf(bridge_val) : l.fw # "torch"

C11_Witness ==
    /\ bridge_pc = "returned"
    /\ Depth2(bridge_in)
    /\ bridge_in.kind = "seq"
    /\ \E i \in 1..Len(bridge_in.items) :
           /\ ~IsLeaf(bridge_in.items[i])
           /\ bridge_in.items[i].kind = "map"
           /\ Len(bridge_in.items[i].items) = 2
    /\ \A l \in LeavesOf(bridge_in) : l.fw # "flow"
    /\ \E l \in LeavesOf(bridge_in) : l.fw = "torch"
    /\ bridge_val = bridge_in

LoadOps == {"load_graph", "warmup_with_load"}

\* C12: load_graph or warmup_with_load on a graph that a live invocation has
\* already compiled, given a saved file, does not fail, replaces the runtime
\* state by the loaded one, and logs a warning.
C12_LoadOverCompiledWarns ==
    (/\ shim_last.op \in LoadOps
     /\ shim_last.state_before = "compiled"
     /\ files[shim_last.file_path] # NoFile) =>
        /\ shim_last.raised = "none"
        /\ graph_state = "loaded"
        /\ runtime_state.data = files[shim_last.file_path].data
        /\ shim_last.warnings # <<>>

\* C17: warmup_with_load(file_path, device) loads the state dict from the file,
\* then retargets it to device only when device is not None, then installs it:
\* the installed state is the retargeted one when a device is given and the
\* state exactly as loaded otherwise.
C17_LoadRetargetInstall ==
    (shim_last.op \in LoadOps /\ shim_last.raised = "none") =>
        LET loaded == files[shim_last.file_path]
        IN  IF shim_last.device # "None"
            THEN /\ shim_last.steps =
                        <<"load", "runtime_state_dict_to", "load_runtime_state_dict">>
                 /\ runtime_state = [data |-> loaded.data, device |-> shim_last.device]
            ELSE /\ shim_last.steps = <<"load", "load_runtime_state_dict">>
                 /\ runtime_state = loaded

C17_Witness ==
    /\ shim_last.op = "warmup_with_load"
    /\ shim_last.raised = "none"
    /\ shim_last.device = "cpu"
    /\ files[shim_last.file_path].device = "cuda"
    /\ runtime_state = [data |-> "built", device |-> "cpu"]

CacheCalls == {"hit", "miss"}

\* C13: when compiling the graph of a missed shape key fails, the error reaches
\* the caller of the pipeline call, compilation was attempted exactly once, and
\* the denoising loop runs neither the graph nor the eager denoiser.
C13_CompileFailurePropagates ==
    (last.op = "miss" /\ last.compiled = "failed") =>
        /\ last.raised = "CompileError"
        /\ last.compile_calls = 1
        /\ ~last.loop_unet
        /\ last.loop_graph = 0

C13_Witness ==
    /\ last.op = "miss"
    /\ last.compiled = "failed"
    /\ last.raised = "CompileError"
    /\ last.compile_calls = 1
    /\ graphs_built >= 2
    /\ unet_graphs # <<>>

\* C14: the graph the denoising loop of a call executes is the one resident in
\* unet_graphs under the call's own shape key, and it is no graph that was
\* evicted before or during the call; no evicted graph is in the cache again.
C14_RunsResidentGraph ==
    /\ last.loop_graph # 0 =>
           /\ last.shape \in Keys(unet_graphs)
           /\ GraphOf(unet_graphs, last.shape) = last.loop_graph
           /\ last.loop_graph \notin discarded_graphs
    /\ \A i \in 1..Len(unet_graphs) : unet_graphs[i].graph \notin discarded_graphs

C14_Witness ==
    /\ last.op = "miss"
    /\ last.loop_graph # 0
    /\ Len(last.evicted) = 1
    /\ Cardinality(discarded_graphs) = 2
    /\ graphs_built = 4
    /\ Len(unet_graphs) = 2

\* C15: the clock is 0 after construction; every call that reaches the cache,
\* hit or insert, raises it by exactly 1; no other operation changes it, so it
\* never decreases.
C15_ClockTicksOncePerAccess ==
    /\ unet_graphs_lru_cache_time = 0
    /\ [][unet_graphs_lru_cache_time' =
              IF last'.op \in CacheCalls
              THEN unet_graphs_lru_cache_time + 1
              ELSE unet_graphs_lru_cache_time]_vars

C15_Witness ==
    /\ unet_graphs_lru_cache_time = 3
    /\ last.op = "hit"
    /\ graphs_built = 1

\* C16: while the capacity is the default 1, a call with the key of the previous
\* call is a hit that compiles nothing and evicts nothing, and a call with
\* another key evicts the one resident graph and compiles a new one.
C16_DefaultCapacityThrashes ==
    [][(workload >= 0 /\ last'.op \in CacheCalls) =>
           /\ unet_graphs_cache_size = 1
           /\ IF last'.shape = workload
              THEN /\ last'.op = "hit"
                   /\ last'.evicted = <<>>
                   /\ last'.compile_calls = 0
                   /\ graphs_built' = graphs_built
                   /\ discarded_graphs' = discarded_graphs
              ELSE /\ last'.op = "miss"
                   /\ last'.compile_calls = 1
                   /\ graphs_built' = graphs_built + 1
                   /\ last'.evicted = IF workload = 0 THEN <<>> ELSE <<workload>>
           /\ workload' >= 0 => Keys(unet_graphs') = {workload'}]_vars

C16_Witness ==
    /\ workload > 0
    /\ last.op = "miss"
    /\ last.shape = workload
    /\ Len(last.evicted) = 1
    /\ graphs_built = 2
    /\ unet_graphs_lru_cache_time = 3

\* C18: the times stored in the cache are pairwise distinct, each at least 1
\* and at most the clock, so exactly one entry has the least time.
C18_TimesDistinct ==
    /\ \A i \in 1..Len(unet_graphs), j \in 1..Len(unet_graphs) :
           unet_graphs[i].time = unet_graphs[j].time => i = j
    /\ \A i \in 1..Len(unet_graphs) :
           /\ unet_graphs[i].time >= 1
           /\ unet_graphs[i].time <= unet_graphs_lru_cache_time
    /\ unet_graphs # <<>> =>
           Cardinality({i \in 1..Len(unet_graphs) :
                           \A j \in 1..Len(unet_graphs) :
                               unet_graphs[j].time >= unet_graphs[i].time}) = 1

C18_Witness ==
    /\ Len(unet_graphs) = 2
    /\ last.op = "hit"
    /\ unet_graphs[1].time > unet_graphs[2].time

\* C19: with a capacity below 1, a call whose key is absent deletes every
\* resident entry and then raises from min() of the empty cache, having built
\* and inserted nothing; a call whose key is resident succeeds and evicts
\* nothing.
C19_CapacityBelowOne ==
    [][unet_graphs_cache_size < 1 =>
           /\ last'.op = "miss" =>
                  /\ last'.raised = "ValueError"
                  /\ unet_graphs' = <<>>
                  /\ SeqToSet(last'.evicted) = Keys(unet_graphs)
                  /\ Len(last'.evicted) = Len(unet_graphs)
                  /\ last'.compile_calls = 0
                  /\ graphs_built' = graphs_built
           /\ last'.op = "hit" =>
                  /\ last'.raised = "none"
                  /\ last'.evicted = <<>>
                  /\ Keys(unet_graphs') = Keys(unet_graphs)
                  /\ last'.loop_graph = GraphOf(unet_graphs, last'.shape)]_vars

C19_Witness ==
    /\ unet_graphs_cache_size < 1
    /\ last.op = "miss"
    /\ last.raised = "ValueError"
    /\ Len(last.evicted) = 2
    /\ unet_graphs = <<>>

\* C20: a compilation failure on a miss is not rolled back: the missed key has
\* no entry, the entries the eviction loop deleted stay deleted, the others
\* are as they were, and the clock keeps its incremented value.
C20_FailedMissNotRolledBack ==
    [][(last'.op = "miss" /\ last'.compiled = "failed") =>
           /\ last'.shape \notin Keys(unet_graphs')
           /\ unet_graphs' = SelectSeq(unet_graphs,
                                 LAMBDA e : e.shape \notin SeqToSet(last'.evicted))
           /\ unet_graphs_lru_cache_time' = unet_graphs_lru_cache_time + 1]_vars

C20_Witness ==
    /\ last.op = "miss"
    /\ last.compiled = "failed"
    /\ Len(last.evicted) = 1
    /\ Len(unet_graphs) = 1
    /\ last.shape \notin Keys(unet_graphs)
    /\ unet_graphs_lru_cache_time >= 3

\* C21: a pipeline call with compile_unet=False leaves the cache contents with
\* every stored time, the clock and the capacity as they were, constructs no
\* graph, and its denoising loop runs self.unet and no cached graph.
C21_UncompiledCallLeavesCache ==
    [][last'.op = "uncompiled" =>
           /\ unet_graphs' = unet_graphs
           /\ unet_graphs_lru_cache_time' = unet_graphs_lru_cache_time
           /\ unet_graphs_cache_size' = unet_graphs_cache_size
           /\ graphs_built' = graphs_built
           /\ last'.raised = "none"
           /\ last'.loop_unet
           /\ last'.loop_graph = 0]_vars

C21_Witness ==
    /\ last.op = "uncompiled"
    /\ last.loop_unet
    /\ Len(unet_graphs) = 2
    /\ unet_graphs_lru_cache_time = 3

\* C22: a pipeline call whose prompt is neither a str nor a list, or whose
\* strength lies outside [0, 1], raises ValueError with the cache contents, the
\* clock and the capacity the same after the call as before it, and with no
\* graph constructed or run.
C22_RejectedCallLeavesCache ==
    [][last'.op = "rejected" =>
           /\ last'.raised = "ValueError"
           /\ unet_graphs' = unet_graphs
           /\ unet_graphs_lru_cache_time' = unet_graphs_lru_cache_time
           /\ unet_graphs_cache_size' = unet_graphs_cache_size
           /\ graphs_built' = graphs_built
           /\ ~last'.loop_unet
           /\ last'.loop_graph = 0]_vars

C22_Witness ==
    /\ last.op = "rejected"
    /\ last.raised = "ValueError"
    /\ Len(unet_graphs) = 1
    /\ unet_graphs_cache_size = 2
    /\ unet_graphs_lru_cache_time = 2

====
